---- MODULE Spec2Model ----
(***************************************************************************)
(* Model of scripts/xdist/pytest_worker_manager.py: one run of the script  *)
(* (its up and down actions) or one call of terminate_workers, against an  *)
(* EC2 provider whose answers (launch outcome, describe_instances          *)
(* responses, terminate outcome) are inputs.                               *)
(***************************************************************************)
EXTENDS Integers, Sequences, FiniteSets, TLC

\* Largest --num-workers value explored.
MaxWorkers == 2

WORKER_RUN_TIMEOUT_MINUTES == 10
MAX_RUN_WORKER_RETRIES == 7
\* time.sleep(5) at the top of every polling iteration.
PollSleep == 5

\* Marker for an instance_info dict that has no 'PrivateIpAddress' key.
Missing == "<no key>"

VARIABLES
    pc,                  \* position in the script or in the method called
    action,              \* args.action
    instance_ids,        \* args.instance_ids / the argument of terminate_workers:
                         \* <<>> for None, <<text>> for a string
    terminate_calls,     \* ec2.terminate_instances invocations
    terminate_ids,       \* InstanceIds of the latest terminate_instances
    number_of_workers,   \* argument of spin_up_workers
    retry,               \* loop variable of the launch loop
    worker_instance_ids, \* list built from response['Instances']
    not_running,         \* list passed to describe_instances
    ip_addresses,        \* list of recorded PrivateIpAddress values
    attempt,             \* polling iterations completed
    all_running,
    raised,              \* exception that left spin_up_workers, or "none"
    ip_file,             \* pytest_worker_ips.txt: <<>> absent, <<text>> written
    id_file,             \* pytest_worker_instance_ids.txt, same encoding
    launch_calls,        \* ec2.run_instances invocations
    client_errors,       \* run_instances calls answered with a ClientError
    rejected,            \* some ClientError of run_instances was not a throttling one
    sleeps,              \* backoff delays passed to time.sleep, in order
    describe_calls,      \* ec2.describe_instances invocations
    poll_wait,           \* seconds slept in the polling loop
    last_query,          \* the ids in InstanceIds of the latest describe_instances
    last_report          \* per instance id, what the provider last said of it

\* What terminate_workers and the dispatch of the script work on.
down_vars == <<action, instance_ids, terminate_calls, terminate_ids>>

\* What spin_up_workers works on.
up_vars == <<number_of_workers, retry, worker_instance_ids, not_running,
             ip_addresses, attempt, all_running, ip_file, id_file,
             launch_calls, client_errors, rejected, sleeps, describe_calls,
             poll_wait, last_query, last_report>>

vars == <<action, instance_ids, terminate_calls, terminate_ids,
          pc, number_of_workers, retry, worker_instance_ids, not_running,
          ip_addresses, attempt, all_running, raised, ip_file, id_file,
          launch_calls, client_errors, rejected, sleeps, describe_calls,
          poll_wait, last_query, last_report>>

----------------------------------------------------------------------------
\* The provider.

\* The instances the provider creates for one run_instances call, in the
\* order of response['Instances']: each has an identifier and a private
\* address of its own.
Fleet == [i \in 1..MaxWorkers |-> [InstanceId |-> "i-" \o ToString(i),
                                   PrivateIpAddress |-> "10.0.0." \o ToString(i)]]

\* response['Instances'] of a successful run_instances with
\* MinCount = MaxCount = n.
Instances(n) == SubSeq(Fleet, 1, n)

AddressOf(id) ==
    Fleet[CHOOSE i \in 1..MaxWorkers : Fleet[i].InstanceId = id].PrivateIpAddress

\* What describe_instances can say of one instance: a state, and whether the
\* 'PrivateIpAddress' key holds the instance's address, holds an empty
\* string, or is absent. The code tells "pending" and "terminated" apart
\* from "running" only by inequality.
Variants ==
    {<<"pending", "own">>, <<"terminated", "own">>,
     <<"running", "own">>, <<"running", "empty">>, <<"running", "missing">>}

InstanceInfo(id, v) ==
    [InstanceId |-> id,
     State |-> v[1],
     PrivateIpAddress |-> IF v[2] = "own" THEN AddressOf(id)
                          ELSE IF v[2] = "empty" THEN "" ELSE Missing]

SeqToSet(s) == {s[i] : i \in 1..Len(s)}

\* Orders in which k of the ids of a set can be listed, each at most once.
Orders(S, k) == {o \in [1..k -> S] : \A i, j \in 1..k : i # j => o[i] # o[j]}

\* The instance_info dicts of a describe_instances response, flattened over
\* its reservations in iteration order: any subset of the queried ids, each
\* at most once, in any order.
Responses(query) ==
    UNION { {[i \in 1..k |-> InstanceInfo(ord[i], v[i])]
                : ord \in Orders(SeqToSet(query), k), v \in [1..k -> Variants]}
            : k \in 0..Len(query) }

----------------------------------------------------------------------------
\* Pure helpers of spin_up_workers.

\* Variants of the backoff delay: linear in retry, and counted from retry 0.
CountdownLinear(r) == 2 * r
CountdownFromZero(r) == 2 ^ (r - 1)

\* countdown = 2 ** retry
Countdown(r) == 2 ^ r

\* Variant of the exhaustion test that is one retry late.
RetriesExhaustedLate(r) == r = MAX_RUN_WORKER_RETRIES + 1

\* retry == self.MAX_RUN_WORKER_RETRIES
RetriesExhausted(r) == r = MAX_RUN_WORKER_RETRIES

\* range(0, self.WORKER_RUN_TIMEOUT_MINUTES * 2)
PollAttempts == WORKER_RUN_TIMEOUT_MINUTES * 2

\* Body of the two nested for loops over a response: a running instance has
\* its 'PrivateIpAddress' appended (KeyError when the key is absent, which
\* stops the scan), any other instance has its id appended to not_running.
RECURSIVE ScanResponse(_, _, _, _)
ScanResponse(resp, i, ips, nr) ==
    IF i > Len(resp) THEN [ip_addresses |-> ips, not_running |-> nr, raised |-> "none"]
    ELSE IF resp[i].State = "running"
         THEN IF resp[i].PrivateIpAddress = Missing
              THEN [ip_addresses |-> ips, not_running |-> nr, raised |-> "KeyError"]
              ELSE ScanResponse(resp, i + 1, Append(ips, resp[i].PrivateIpAddress), nr)
         ELSE ScanResponse(resp, i + 1, ips, Append(nr, resp[i].InstanceId))

\* ",".join(items): the text as a sequence of tokens, "," or a non-empty item;
\* an empty item contributes no token.
RECURSIVE Join(_)
Join(items) ==
    IF Len(items) = 0 THEN <<>>
    ELSE LET head == IF items[1] = "" THEN <<>> ELSE <<items[1]>>
         IN IF Len(items) = 1 THEN head
            ELSE head \o <<",">> \o Join(Tail(items))

\* text.split(','): the comma-separated entries of a text.
RECURSIVE Split(_)
Split(text) ==
    IF \A i \in 1..Len(text) : text[i] # "," THEN
        <<(IF Len(text) = 0 THEN "" ELSE text[1])>>
    ELSE LET c == CHOOSE i \in 1..Len(text) :
                      text[i] = "," /\ \A j \in 1..(i - 1) : text[j] # ","
         IN <<(IF c = 1 THEN "" ELSE text[1])>>
            \o Split(SubSeq(text, c + 1, Len(text)))

\* What a response says of one instance, as recorded in last_report.
ReportOf(info) ==
    IF info.State # "running" THEN "other"
    ELSE IF info.PrivateIpAddress \in {"", Missing} THEN "running_no_address"
    ELSE "ready"

Reported(resp, old) ==
    [id \in DOMAIN old |->
        IF \E i \in 1..Len(resp) : resp[i].InstanceId = id
        THEN ReportOf(resp[CHOOSE i \in 1..Len(resp) : resp[i].InstanceId = id])
        ELSE old[id]]

----------------------------------------------------------------------------
\* Values of --instance-ids: absent, or the ids of a fleet of 0 to MaxWorkers
\* instances joined by commas.
InstanceIdTexts ==
    {<<>>} \cup {<<Join([i \in 1..n |-> Fleet[i].InstanceId])>> : n \in 0..MaxWorkers}

\* The script is started with some --action, or a caller invokes
\* terminate_workers on a manager it built.
Init ==
    /\ pc \in {"main", "terminate_workers"}
    /\ action \in IF pc = "main" THEN {"up", "down", "none"} ELSE {"none"}
    /\ instance_ids \in IF pc = "main" /\ action # "down" THEN {<<>>}
                        ELSE InstanceIdTexts
    /\ terminate_calls = 0
    /\ terminate_ids = <<>>
    /\ number_of_workers \in 1..MaxWorkers
    /\ retry = 1
    /\ worker_instance_ids = <<>>
    /\ not_running = <<>>
    /\ ip_addresses = <<>>
    /\ attempt = 0
    /\ all_running = FALSE
    /\ raised = "none"
    /\ ip_file = <<>>
    /\ id_file = <<>>
    /\ launch_calls = 0
    /\ client_errors = 0
    /\ rejected = FALSE
    /\ sleeps = <<>>
    /\ describe_calls = 0
    /\ poll_wait = 0
    /\ last_query = {}
    /\ last_report = [id \in {Fleet[i].InstanceId : i \in 1..number_of_workers} |-> "none"]

\* Variant of the launch that goes straight to the files.
RunInstancesOkNoPolling ==
    /\ pc = "launch"
    /\ retry <= MAX_RUN_WORKER_RETRIES
    /\ launch_calls' = launch_calls + 1
    /\ worker_instance_ids' =
          [i \in 1..number_of_workers |-> Instances(number_of_workers)[i].InstanceId]
    /\ not_running' = worker_instance_ids'
    /\ pc' = "write_ips"
    /\ UNCHANGED <<number_of_workers, retry, ip_addresses, attempt, all_running,
                   raised, ip_file, id_file, client_errors, rejected, sleeps,
                   describe_calls, poll_wait, last_query, last_report>>
    /\ UNCHANGED down_vars

\* run_instances returns: the else branch breaks out of the launch loop, the
\* instance ids are collected and not_running is a copy of them.
RunInstancesOk ==
    /\ pc = "launch"
    /\ retry <= MAX_RUN_WORKER_RETRIES
    /\ launch_calls' = launch_calls + 1
    /\ worker_instance_ids' =
          [i \in 1..number_of_workers |-> Instances(number_of_workers)[i].InstanceId]
    /\ not_running' = worker_instance_ids'
    /\ pc' = "poll"
    /\ UNCHANGED <<number_of_workers, retry, ip_addresses, attempt, all_running,
                   raised, ip_file, id_file, client_errors, rejected, sleeps,
                   describe_calls, poll_wait, last_query, last_report>>
    /\ UNCHANGED down_vars

\* run_instances raises ClientError, throttling or not: the except clause
\* raises StandardError on the last retry and otherwise sleeps 2 ** retry.
RunInstancesClientError(kind) ==
    /\ pc = "launch"
    /\ retry <= MAX_RUN_WORKER_RETRIES
    /\ launch_calls' = launch_calls + 1
    /\ client_errors' = client_errors + 1
    /\ rejected' = (rejected \/ kind # "throttled")
    /\ IF RetriesExhausted(retry)
       THEN /\ pc' = "failed"
            /\ raised' = "MAX_RUN_WORKER_RETRIES reached"
            /\ UNCHANGED <<retry, sleeps>>
       ELSE /\ sleeps' = Append(sleeps, Countdown(retry))
            /\ retry' = retry + 1
            /\ UNCHANGED <<pc, raised>>
    /\ UNCHANGED <<number_of_workers, worker_instance_ids, not_running,
                   ip_addresses, attempt, all_running, ip_file, id_file,
                   describe_calls, poll_wait, last_query, last_report>>
    /\ UNCHANGED down_vars

\* run_instances raises something that is not a ClientError (a connection
\* error, a parameter validation error): no except clause matches.
RunInstancesOtherException ==
    /\ pc = "launch"
    /\ retry <= MAX_RUN_WORKER_RETRIES
    /\ launch_calls' = launch_calls + 1
    /\ pc' = "failed"
    /\ raised' = "Exception"
    /\ UNCHANGED <<number_of_workers, retry, worker_instance_ids, not_running,
                   ip_addresses, attempt, all_running, ip_file, id_file,
                   client_errors, rejected, sleeps, describe_calls, poll_wait,
                   last_query, last_report>>
    /\ UNCHANGED down_vars

\* One iteration of the polling loop with describe_instances answering resp.
DescribeInstancesOk(resp) ==
    /\ pc = "poll"
    /\ attempt < PollAttempts
    /\ LET scan == ScanResponse(resp, 1, ip_addresses, <<>>) IN
        /\ poll_wait' = poll_wait + PollSleep
        /\ describe_calls' = describe_calls + 1
        /\ last_query' = SeqToSet(not_running)
        /\ last_report' = Reported(resp, last_report)
        /\ ip_addresses' = scan.ip_addresses
        /\ not_running' = scan.not_running
        /\ IF scan.raised # "none"
           THEN /\ pc' = "failed"
                /\ raised' = scan.raised
                /\ UNCHANGED <<attempt, all_running>>
           ELSE IF Len(scan.not_running) > 0
           THEN /\ attempt' = attempt + 1
                /\ UNCHANGED <<pc, raised, all_running>>
           ELSE /\ all_running' = TRUE
                /\ pc' = "write_ips"
                /\ UNCHANGED <<attempt, raised>>
    /\ UNCHANGED <<number_of_workers, retry, worker_instance_ids, ip_file,
                   id_file, launch_calls, client_errors, rejected, sleeps>>
    /\ UNCHANGED down_vars

\* One iteration of the polling loop in which describe_instances raises
\* ClientError: nothing catches it.
DescribeInstancesClientError ==
    /\ pc = "poll"
    /\ attempt < PollAttempts
    /\ poll_wait' = poll_wait + PollSleep
    /\ describe_calls' = describe_calls + 1
    /\ last_query' = SeqToSet(not_running)
    /\ pc' = "failed"
    /\ raised' = "ClientError"
    /\ UNCHANGED <<number_of_workers, retry, worker_instance_ids, not_running,
                   ip_addresses, attempt, all_running, ip_file, id_file,
                   launch_calls, client_errors, rejected, sleeps, last_report>>
    /\ UNCHANGED down_vars

\* The instance ids that the message of an exception raised by
\* spin_up_workers names: the message of line 58 formats only
\* MAX_RUN_WORKER_RETRIES, the message of line 94 formats nothing.
MessageIds(exception) == {}

\* Variant of the timeout that terminates the instances still not running.
RaiseTimedOutAndTerminate ==
    /\ pc = "poll"
    /\ attempt = PollAttempts
    /\ ~all_running
    /\ pc' = "failed"
    /\ raised' = "Timed out waiting to spin up all workers."
    /\ terminate_calls' = terminate_calls + 1
    /\ terminate_ids' = not_running
    /\ UNCHANGED <<action, instance_ids, up_vars>>

\* The polling loop ran out of iterations: if not all_running: raise.
RaiseTimedOut ==
    /\ pc = "poll"
    /\ attempt = PollAttempts
    /\ ~all_running
    /\ pc' = "failed"
    /\ raised' = "Timed out waiting to spin up all workers."
    /\ UNCHANGED <<number_of_workers, retry, worker_instance_ids, not_running,
                   ip_addresses, attempt, all_running, ip_file, id_file,
                   launch_calls, client_errors, rejected, sleeps,
                   describe_calls, poll_wait, last_query, last_report>>
    /\ UNCHANGED down_vars

\* pytest_worker_ips.txt is opened, written and closed.
WriteIpFile ==
    /\ pc = "write_ips"
    /\ ip_file' = <<Join(ip_addresses)>>
    /\ pc' = "write_ids"
    /\ UNCHANGED <<number_of_workers, retry, worker_instance_ids, not_running,
                   ip_addresses, attempt, all_running, raised, id_file,
                   launch_calls, client_errors, rejected, sleeps,
                   describe_calls, poll_wait, last_query, last_report>>
    /\ UNCHANGED down_vars

\* Variant of the second write that writes the address text again.
WriteIdFileFromIps ==
    /\ pc = "write_ids"
    /\ id_file' = <<Join(ip_addresses)>>
    /\ pc' = "done"
    /\ UNCHANGED <<action, instance_ids, terminate_calls, terminate_ids,
                   number_of_workers, retry, worker_instance_ids, not_running,
                   ip_addresses, attempt, all_running, raised, ip_file,
                   launch_calls, client_errors, rejected, sleeps,
                   describe_calls, poll_wait, last_query, last_report>>

\* pytest_worker_instance_ids.txt is opened, written and closed; the method
\* returns.
WriteIdFile ==
    /\ pc = "write_ids"
    /\ id_file' = <<Join(worker_instance_ids)>>
    /\ pc' = "done"
    /\ UNCHANGED <<number_of_workers, retry, worker_instance_ids, not_running,
                   ip_addresses, attempt, all_running, raised, ip_file,
                   launch_calls, client_errors, rejected, sleeps,
                   describe_calls, poll_wait, last_query, last_report>>
    /\ UNCHANGED down_vars

\* if args.action == 'up': spin_up_workers is called.
MainUp ==
    /\ pc = "main"
    /\ action = "up"
    /\ pc' = "launch"
    /\ UNCHANGED <<raised, up_vars, down_vars>>

\* elif args.action == 'down': the script calls containerManager
\* .terminate_tasks, which PytestWorkerManager does not define.
MainDown ==
    /\ pc = "main"
    /\ action = "down"
    /\ pc' = "failed"
    /\ raised' = "AttributeError"
    /\ UNCHANGED <<up_vars, down_vars>>

\* else: "No action specified" is logged and the script ends.
MainNoAction ==
    /\ pc = "main"
    /\ action = "none"
    /\ pc' = "exit"
    /\ UNCHANGED <<raised, up_vars, down_vars>>

\* terminate_workers(None): None has no split.
TerminateWorkersNone ==
    /\ pc = "terminate_workers"
    /\ instance_ids = <<>>
    /\ pc' = "failed"
    /\ raised' = "AttributeError"
    /\ UNCHANGED <<up_vars, down_vars>>

\* terminate_workers(text): the text is split on ',' and the list is passed
\* to terminate_instances, which returns or raises ClientError.
TerminateWorkers(outcome) ==
    /\ pc = "terminate_workers"
    /\ instance_ids # <<>>
    /\ terminate_ids' = Split(instance_ids[1])
    /\ terminate_calls' = terminate_calls + 1
    /\ IF outcome = "ok"
       THEN pc' = "terminated" /\ UNCHANGED raised
       ELSE pc' = "failed" /\ raised' = "ClientError"
    /\ UNCHANGED <<action, instance_ids, up_vars>>

TerminateWorkersOk == TerminateWorkers("ok")
TerminateWorkersClientError == TerminateWorkers("ClientError")

RunInstancesThrottled == RunInstancesClientError("throttled")
RunInstancesRejected == RunInstancesClientError("other")
\* Variant of the poll that asks about every launched instance at every tick.
DescribeInstancesAll ==
    \E resp \in Responses(worker_instance_ids) : DescribeInstancesOk(resp)

DescribeInstances == \E resp \in Responses(not_running) : DescribeInstancesOk(resp)

Next ==
    \/ MainUp
    \/ MainDown
    \/ MainNoAction
    \/ TerminateWorkersNone
    \/ TerminateWorkersOk
    \/ TerminateWorkersClientError
    \/ RunInstancesOk
    \/ RunInstancesThrottled
    \/ RunInstancesRejected
    \/ RunInstancesOtherException
    \/ DescribeInstances
    \/ DescribeInstancesClientError
    \/ RaiseTimedOut
    \/ WriteIpFile
    \/ WriteIdFile

Spec == Init /\ [][Next]_vars

----------------------------------------------------------------------------
\* Vocabulary of the properties.

Launched == SeqToSet(worker_instance_ids)
Succeeded == pc \in {"write_ips", "write_ids", "done"}
TimedOut == raised = "Timed out waiting to spin up all workers."
RetriesReached == raised = "MAX_RUN_WORKER_RETRIES reached"

\* Instances the provider has reported running with an address.
ReportedReady == {id \in DOMAIN last_report : last_report[id] = "ready"}
\* Instances the provider has reported in state "running".
ReportedRunning ==
    {id \in DOMAIN last_report : last_report[id] \in {"ready", "running_no_address"}}

RECURSIVE SumSeq(_)
SumSeq(s) == IF Len(s) = 0 THEN 0 ELSE s[1] + SumSeq(Tail(s))

\* C1: whenever spin_up_workers completes successfully it holds exactly
\* number_of_workers instance ids and exactly number_of_workers addresses,
\* and each of the two files holds exactly number_of_workers
\* comma-separated entries.
C1_CompleteFleet ==
    pc = "done" =>
        /\ Len(worker_instance_ids) = number_of_workers
        /\ Len(ip_addresses) = number_of_workers
        /\ Len(Split(ip_file[1])) = number_of_workers
        /\ Len(Split(id_file[1])) = number_of_workers

\* C2: after a successful spin_up_workers in which every instance was
\* reported running with its address, the i-th entry of the address file is
\* the address of the instance named by the i-th entry of the id file, and
\* the id file lists the instances in the order run_instances returned them.
C2_ArtifactsPaired ==
    (pc = "done" /\ ReportedReady = Launched) =>
        LET ips == Split(ip_file[1])
            ids == Split(id_file[1])
        IN /\ ids = [i \in 1..number_of_workers |-> Fleet[i].InstanceId]
           /\ Len(ips) = Len(ids)
           /\ \A i \in 1..Len(ids) : ips[i] = AddressOf(ids[i])

\* C3: when run_instances was throttled exactly k times (k < 7) and then
\* succeeded, it has been invoked exactly k + 1 times, now and at every later
\* point of the run, and the sleeps taken are 2^1, ..., 2^k in that order,
\* 2^1 + ... + 2^k in total.
C3_BackoffThenSuccess ==
    (~rejected /\ worker_instance_ids # <<>>) =>
        /\ client_errors < MAX_RUN_WORKER_RETRIES
        /\ launch_calls = client_errors + 1
        /\ sleeps = [i \in 1..client_errors |-> 2 ^ i]
        /\ SumSeq(sleeps) = 2 ^ (client_errors + 1) - 2

C3_Witness ==
    /\ ~rejected
    /\ client_errors = MAX_RUN_WORKER_RETRIES - 1
    /\ pc = "done"

\* C4: run_instances is never invoked more than MAX_RUN_WORKER_RETRIES
\* times; when every one of the 7 attempts was throttled, spin_up_workers has
\* failed with the retries-reached error after exactly 7 invocations, without
\* any describe_instances call and without writing either file; and the
\* retries-reached error is raised only after 7 failed attempts.
C4_ThrottledOut ==
    /\ launch_calls <= MAX_RUN_WORKER_RETRIES
    /\ (~rejected /\ client_errors >= MAX_RUN_WORKER_RETRIES) =>
          /\ launch_calls = MAX_RUN_WORKER_RETRIES
          /\ pc = "failed"
          /\ RetriesReached
          /\ describe_calls = 0
          /\ ip_file = <<>>
          /\ id_file = <<>>
    /\ RetriesReached => client_errors = MAX_RUN_WORKER_RETRIES

C4_Witness ==
    /\ ~rejected
    /\ client_errors = MAX_RUN_WORKER_RETRIES
    /\ pc = "failed"

\* C5: once run_instances has failed with a ClientError that is not a
\* throttling error, spin_up_workers has failed: that attempt was the last
\* invocation and no backoff sleep was taken after it.
C5_RejectionPropagates ==
    rejected =>
        /\ pc = "failed"
        /\ launch_calls = client_errors
        /\ Len(sleeps) = client_errors - 1

\* C6 as stated: every delay taken after failed attempt r is 2^r, and when
\* all 7 attempts are throttled the delays taken are 2, 4, 8, 16, 32, 64, 128.
C6_DelaysUpTo128 ==
    /\ \A i \in 1..Len(sleeps) : sleeps[i] = 2 ^ i
    /\ (~rejected /\ client_errors = MAX_RUN_WORKER_RETRIES) =>
          sleeps = [i \in 1..MAX_RUN_WORKER_RETRIES |-> 2 ^ i]

\* C6 as amended: the delay taken after the failed attempt r is 2^r for r
\* from 1 to 6, no delay is taken after the failed 7th attempt, and when all
\* 7 attempts fail the delays taken are 2, 4, 8, 16, 32, 64.
C6_DelaysUpTo64 ==
    /\ Len(sleeps) = IF client_errors < MAX_RUN_WORKER_RETRIES
                     THEN client_errors ELSE MAX_RUN_WORKER_RETRIES - 1
    /\ \A i \in 1..Len(sleeps) : sleeps[i] = 2 ^ i
    /\ client_errors = MAX_RUN_WORKER_RETRIES => sleeps = <<2, 4, 8, 16, 32, 64>>

C6_Witness ==
    /\ ~rejected
    /\ RetriesReached
    /\ Len(sleeps) = MAX_RUN_WORKER_RETRIES - 1

\* C7: the polling phase times out only after 600 / 5 = 120
\* describe_instances calls and 600 seconds of waiting.
C7_TimeoutAfterBudget ==
    TimedOut =>
        /\ describe_calls = (WORKER_RUN_TIMEOUT_MINUTES * 60) \div PollSleep
        /\ poll_wait = WORKER_RUN_TIMEOUT_MINUTES * 60

\* C8: every step that calls describe_instances makes exactly one call after
\* one sleep of 5, and the call names exactly the launched instances that
\* have not been reported ready so far.
C8_QueriesNotReady ==
    [][describe_calls' # describe_calls =>
          /\ describe_calls' = describe_calls + 1
          /\ poll_wait' = poll_wait + PollSleep
          /\ last_query' = Launched \ ReportedReady]_vars

\* C9: a step after which every launched instance has been reported running
\* leaves spin_up_workers succeeded with one non-empty address per instance,
\* and no step taken from then on calls describe_instances.
C9_EndsWhenAllRunning ==
    [][/\ (Launched' # {} /\ ReportedRunning' = Launched') =>
              /\ Succeeded'
              /\ Len(ip_addresses') = number_of_workers'
              /\ \A i \in 1..Len(ip_addresses') : ip_addresses'[i] # ""
       /\ (Launched # {} /\ ReportedRunning = Launched) =>
              describe_calls' = describe_calls]_vars

\* C10: an instance last reported in a state other than "running", or
\* running without an address, is in not_running, spin_up_workers has neither
\* succeeded nor crashed on it, and ip_addresses holds one address for each
\* instance reported running with an address and nothing else.
C10_ReadyNeedsAddress ==
    /\ \A id \in DOMAIN last_report :
          last_report[id] \in {"other", "running_no_address"} =>
              /\ id \in SeqToSet(not_running)
              /\ ~Succeeded
              /\ raised # "KeyError"
    /\ Len(ip_addresses) = Cardinality(ReportedReady)

\* C11 as stated: the error raised when the polling phase times out names
\* exactly the instance ids that are still in not_running.
C11_TimeoutNamesInstances ==
    TimedOut => MessageIds(raised) = SeqToSet(not_running)

\* C12: terminate_workers called with an empty identifier text ends in an
\* error without any call of terminate_instances, run_instances or
\* describe_instances.
C12_EmptyListRejected ==
    (action = "none" /\ instance_ids = <<Join(<<>>)>>) =>
        /\ pc \in {"terminate_workers", "failed"}
        /\ terminate_calls = 0
        /\ launch_calls = 0
        /\ describe_calls = 0

\* C13: once the script has finished a down action given a non-empty list of
\* ids, terminate_instances has been called exactly once with exactly those
\* ids and run_instances and describe_instances have not been called.
C13_DownTerminatesOnce ==
    (action = "down" /\ pc # "main"
        /\ instance_ids # <<>> /\ instance_ids # <<Join(<<>>)>>) =>
        /\ terminate_calls = 1
        /\ terminate_ids = Split(instance_ids[1])
        /\ launch_calls = 0
        /\ describe_calls = 0

\* C14: no step of spin_up_workers calls terminate_instances, and whenever
\* the up action has called run_instances, terminate_instances has not been
\* called: not after the retries are exhausted, not after the timeout.
C14_SpinUpNeverTerminates ==
    /\ [](action = "up" => terminate_calls = 0 /\ terminate_ids = <<>>)
    /\ [][/\ pc \in {"launch", "poll", "write_ips", "write_ids"} =>
                 terminate_calls' = terminate_calls
          /\ action = "up" => terminate_calls' = terminate_calls]_vars

C14_Witness ==
    /\ TimedOut
    /\ Launched # {}
    /\ not_running # <<>>
    /\ terminate_calls = 0

\* C15: when spin_up_workers has failed neither file exists, the id file is
\* never written before the address file, and when spin_up_workers has
\* returned the address file holds the joined addresses and the id file the
\* joined ids.
C15_FilesOnlyOnSuccess ==
    /\ pc = "failed" => ip_file = <<>> /\ id_file = <<>>
    /\ ~Succeeded => ip_file = <<>> /\ id_file = <<>>
    /\ id_file # <<>> => ip_file # <<>>
    /\ pc = "done" =>
          /\ ip_file = <<Join(ip_addresses)>>
          /\ id_file = <<Join(worker_instance_ids)>>

C15_Witness ==
    /\ pc = "done"
    /\ Len(worker_instance_ids) = 2
    /\ ReportedReady = Launched

\* C16: spin_up_workers succeeds only if every launched instance has been
\* reported in state "running" by some describe_instances response.
C16_SuccessNeedsAllRunning ==
    Succeeded => ReportedRunning = Launched

\* C17: an instance that has been reported running is never in not_running
\* afterwards, a poll tick never adds an id to not_running, and ip_addresses
\* never holds more entries than instances reported running, nor the same
\* address twice.
C17_ReadyIsTerminal ==
    [][/\ ReportedRunning \cap SeqToSet(not_running') = {}
       /\ ReportedRunning \subseteq ReportedRunning'
       /\ describe_calls' # describe_calls =>
              SeqToSet(not_running') \subseteq SeqToSet(not_running)
       /\ Len(ip_addresses') <= Cardinality(ReportedRunning')
       /\ \A i, j \in 1..Len(ip_addresses') :
              (i # j /\ ip_addresses'[i] # "") => ip_addresses'[i] # ip_addresses'[j]
       /\ \A i \in 1..Len(ip_addresses) :
              i <= Len(ip_addresses') /\ ip_addresses'[i] = ip_addresses[i]]_vars

C17_Witness ==
    /\ describe_calls >= 2
    /\ pc = "poll"
    /\ Len(ip_addresses) = 1
    /\ Len(not_running) = 1

\* C18: describe_instances is called only after run_instances has returned
\* the instances, run_instances is never called after a describe_instances
\* call, every describe_instances call comes right after a sleep of 5, and a
\* file is written only once not_running is empty.
C18_PhasesInOrder ==
    /\ [](/\ describe_calls > 0 => Launched # {}
          /\ poll_wait = PollSleep * describe_calls
          /\ (ip_file # <<>> \/ id_file # <<>>) => (not_running = <<>> /\ all_running)
          /\ pc \in {"write_ips", "write_ids", "done"} => not_running = <<>>)
    /\ [][/\ describe_calls > 0 => launch_calls' = launch_calls
          /\ Launched # {} => launch_calls' = launch_calls
          /\ describe_calls' # describe_calls =>
                 /\ poll_wait' = poll_wait + PollSleep
                 /\ pc = "poll"]_vars

C18_Witness ==
    /\ pc = "done"
    /\ client_errors >= 1
    /\ describe_calls >= 2

\* What a finished run looks like.
Finished == pc \in {"done", "failed", "exit", "terminated"}

\* Upper bound on the number of steps a run can still take: the launch
\* attempts left, the polls left, the raise or the two writes.
StepsLeft ==
    CASE pc = "main" -> MAX_RUN_WORKER_RETRIES + PollAttempts + 4
      [] pc = "terminate_workers" -> 1
      [] pc = "launch" -> (MAX_RUN_WORKER_RETRIES - retry + 1) + PollAttempts + 3
      [] pc = "poll" -> (PollAttempts - attempt) + 3
      [] pc = "write_ips" -> 2
      [] pc = "write_ids" -> 1
      [] OTHER -> 0

\* C19: run_instances is called at most MAX_RUN_WORKER_RETRIES times and
\* describe_instances at most WORKER_RUN_TIMEOUT_MINUTES * 2 times; every
\* step of a run lowers the number of steps it can still take, which is never
\* negative, and a run that has not ended can always take a step, so every
\* run ends in success or in a raised failure; after the last allowed poll
\* left not_running non-empty the run has not succeeded and its only next
\* step is the raise of the timeout.
C19_SpinUpTerminates ==
    /\ [](/\ launch_calls <= MAX_RUN_WORKER_RETRIES
          /\ describe_calls <= WORKER_RUN_TIMEOUT_MINUTES * 2
          /\ StepsLeft >= 0
          /\ ~Finished => ENABLED Next
          /\ Finished <=> StepsLeft = 0
          /\ (describe_calls = WORKER_RUN_TIMEOUT_MINUTES * 2 /\ not_running # <<>>)
                => ~Succeeded)
    /\ [][/\ StepsLeft' < StepsLeft
          /\ (describe_calls = WORKER_RUN_TIMEOUT_MINUTES * 2 /\ not_running # <<>>)
                => (pc' = "failed" /\ TimedOut')]_vars

C19_Witness ==
    /\ TimedOut
    /\ describe_calls = WORKER_RUN_TIMEOUT_MINUTES * 2
    /\ launch_calls = MAX_RUN_WORKER_RETRIES
====
